---- MODULE Spec2Model ----
(***************************************************************************)
(* git-checkoutui (src/src/main.rs): an inline terminal picker that lists  *)
(* the local branches, lets the user move a cursor over them and runs      *)
(* `git checkout` on the confirmed one.                                    *)
(*                                                                         *)
(* The model follows main() step by step: get_branch_info, enable_raw_mode,*)
(* Terminal::with_options + App::new + initial selection, the run_app loop *)
(* (draw, handle_events), disable_raw_mode and the final checkout.         *)
(***************************************************************************)
EXTENDS Integers, Sequences, FiniteSets, TLC

VARIABLES
    git_status,               \* how `git for-each-ref` ends: "ok", "exit_nonzero", "launch_error"
    git_output,               \* stdout of `git for-each-ref`, a sequence of lines
    gh_result,                \* what the `gh` tool does when get_pr_map runs it
    overflow_checks,          \* build profile: TRUE = debug (overflow panics), FALSE = release (wraps)
    pc,                       \* position of main()
    exit_error,               \* the call whose error main returned, "" when none
    branches,                 \* App.branches
    selected,                 \* App.state.selected()
    should_quit,              \* App.should_quit
    last_checked_out_branch,  \* App.last_checked_out_branch
    page_size,                \* App.page_size
    raw_mode,                 \* terminal raw mode currently enabled
    checkout_calls,           \* number of `git checkout` commands launched
    checkout_args             \* arguments of the last `git checkout` command launched

vars == <<git_status, git_output, gh_result, overflow_checks, pc, exit_error, branches, selected, should_quit,
          last_checked_out_branch, page_size, raw_mode, checkout_calls, checkout_args>>

app == <<branches, selected, should_quit, last_checked_out_branch, page_size>>

env == <<git_status, git_output, gh_result, overflow_checks>>

-----------------------------------------------------------------------------
(* Bounds of the model *)

\* at most this many lines in the output of `git for-each-ref`
MaxLines == 3

\* the length of the long outputs of `git for-each-ref`: more branches than a page
\* (the viewport is at most 20 rows, a page at most 18 branches)
ManyLines == 20

\* on an empty listing a release build lets the cursor walk over all of usize;
\* the model follows it this far from 0 and from usize::MAX
MaxWander == 2

\* width of usize in the model (TLC's integers cannot hold 2^64)
UsizeBits == 16

UsizeMax == 2 ^ UsizeBits - 1

-----------------------------------------------------------------------------
(* Option<T>: None is <<>>, Some(x) is <<x>> *)

None == <<>>

Some(x) == <<x>>

\* the result of an operation that can panic: <<>> when it panics, else <<value>>
Panicked == <<>>

Min(a, b) == IF a <= b THEN a ELSE b

\* usize::saturating_add
SaturatingAdd(a, b) == Min(a + b, UsizeMax)

\* usize::saturating_sub
SaturatingSub(a, b) == IF a >= b THEN a - b ELSE 0

-----------------------------------------------------------------------------
(* Input of the model: the output of the two external tools *)

DELIMITER == "|"

\* A line is a sequence of tokens: the delimiter, or a piece of text without it.
LMain == <<" ", "|", "main", "|", "[gone]", "|", "2 days ago", "|", "1000", "|">>

LFeature == <<"*", "|", "feature", "|", "ahead 1", "|", "1 hour ago", "|", "2000", "|", "origin/feature">>

LDev == <<"*", "|", "dev", "|", "|", "3 days ago", "|", "1000", "|", "origin/dev">>

\* a branch named a|b: seven fields
LPipe == <<" ", "|", "a", "|", "b", "|", "|", "1 day ago", "|", "3000", "|">>

\* a commit dated before 1970
LOld == <<" ", "|", "old", "|", "|", "57 years ago", "|", "-5", "|">>

\* an epoch field that is no number
LOdd == <<" ", "|", "odd", "|", "|", "|", "|">>

SampleLines == {LMain, LFeature, LDev, LPipe, LOld, LOdd}

\* n branches b1 .. bn of the same commit date, HEAD on the cur-th (on none when cur = 0)
LongOutput(n, cur) ==
    [k \in 1..n |-> <<IF k = cur THEN "*" ELSE " ", "|", "b" \o ToString(k), "|", "|",
                      "1 day ago", "|", "1000", "|">>]

\* the text of decimal numbers, as str::parse::<i64> reads them
Numerals == [s \in {"1000", "2000", "3000", "-5"} |->
                CASE s = "1000" -> 1000 [] s = "2000" -> 2000 [] s = "3000" -> 3000 [] s = "-5" -> 0 - 5]

GhResults == {
    [kind |-> "not_installed"],
    [kind |-> "launch_error"],
    [kind |-> "exit_nonzero"],
    [kind |-> "bad_json"],
    [kind |-> "ok", prs |-> <<[headRefName |-> "feature", number |-> 42],
                              [headRefName |-> "gone", number |-> 7]>>] }

-----------------------------------------------------------------------------
(* get_pr_map *)

\* prs.into_iter().map(..).collect(): the last entry of a name wins
CollectPrs(prs) ==
    [n \in {prs[k].headRefName : k \in DOMAIN prs} |->
        LET last == CHOOSE k \in DOMAIN prs :
                       /\ prs[k].headRefName = n
                       /\ \A j \in DOMAIN prs : prs[j].headRefName = n => j <= k
        IN prs[last].number]

\* a get_pr_map that returns the error of parsing the JSON
GetPrMapStrict(gh) ==
    CASE gh.kind = "not_installed" -> [ok |-> TRUE, map |-> <<>>]
      [] gh.kind = "launch_error" -> [ok |-> FALSE]
      [] gh.kind = "exit_nonzero" -> [ok |-> TRUE, map |-> <<>>]
      [] gh.kind = "bad_json" -> [ok |-> FALSE]
      [] gh.kind = "ok" -> [ok |-> TRUE, map |-> CollectPrs(gh.prs)]

\* io::Result<HashMap>: [ok |-> TRUE, map |-> m] or [ok |-> FALSE]
GetPrMap(gh) ==
    CASE gh.kind = "not_installed" -> [ok |-> TRUE, map |-> <<>>]
      [] gh.kind = "launch_error" -> [ok |-> FALSE]
      [] gh.kind = "exit_nonzero" -> [ok |-> TRUE, map |-> <<>>]
      [] gh.kind = "bad_json" -> [ok |-> TRUE, map |-> <<>>]
      [] gh.kind = "ok" -> [ok |-> TRUE, map |-> CollectPrs(gh.prs)]

\* get_pr_map().unwrap_or_default()
PrMapOrDefault(gh) == LET r == GetPrMap(gh) IN IF r.ok THEN r.map ELSE <<>>

-----------------------------------------------------------------------------
(* get_branch_info *)

RECURSIVE SplitFrom(_, _, _)
SplitFrom(line, k, cur) ==
    IF k > Len(line) THEN <<cur>>
    ELSE IF line[k] = DELIMITER THEN <<cur>> \o SplitFrom(line, k + 1, "")
    ELSE SplitFrom(line, k + 1, cur \o line[k])

\* line.split(DELIMITER).collect()
Split(line) == SplitFrom(line, 1, "")

\* str::trim().is_empty(), on the texts of the model
TrimIsEmpty(s) == s \in {"", " ", "  "}

\* str::parse::<i64>().unwrap_or(0)
ParseI64OrZero(s) == IF s \in DOMAIN Numerals THEN Numerals[s] ELSE 0

\* a filter_map closure that takes every line of six or more fields
ParseLineAtLeastSix(line, pr_map) ==
    LET parts == Split(line) IN
    IF Len(parts) >= 6
    THEN Some([name |-> parts[2],
               tracking_info |-> parts[3],
               last_commit_date |-> parts[4],
               last_commit_timestamp |-> ParseI64OrZero(parts[5]),
               has_upstream |-> ~TrimIsEmpty(parts[6]),
               pr_number |-> IF parts[2] \in DOMAIN pr_map THEN Some(pr_map[parts[2]]) ELSE None,
               is_current |-> ~TrimIsEmpty(parts[1])])
    ELSE None

\* the closure of filter_map: Some(BranchInfo) or None
ParseLine(line, pr_map) ==
    LET parts == Split(line) IN
    IF Len(parts) = 6
    THEN Some([name |-> parts[2],
               tracking_info |-> parts[3],
               last_commit_date |-> parts[4],
               last_commit_timestamp |-> ParseI64OrZero(parts[5]),
               has_upstream |-> ~TrimIsEmpty(parts[6]),
               pr_number |-> IF parts[2] \in DOMAIN pr_map THEN Some(pr_map[parts[2]]) ELSE None,
               is_current |-> ~TrimIsEmpty(parts[1])])
    ELSE None

RECURSIVE FilterMapLines(_, _)
FilterMapLines(lines, pr_map) ==
    IF lines = <<>> THEN <<>>
    ELSE ParseLine(Head(lines), pr_map) \o FilterMapLines(Tail(lines), pr_map)

\* a comparator that also puts a record before an earlier one of the same timestamp
SortsBeforeOrTie(a, b) == b.last_commit_timestamp <= a.last_commit_timestamp

\* a comparator for oldest first: a.last_commit_timestamp.cmp(&b.last_commit_timestamp)
SortsBeforeAscending(a, b) == a.last_commit_timestamp < b.last_commit_timestamp

\* the comparator of sort_by: b.last_commit_timestamp.cmp(&a.last_commit_timestamp)
SortsBefore(a, b) == b.last_commit_timestamp < a.last_commit_timestamp

\* stable insertion: r goes behind every record that does not sort after it
RECURSIVE InsertSorted(_, _)
InsertSorted(r, s) ==
    IF s = <<>> THEN <<r>>
    ELSE IF SortsBefore(r, Head(s)) THEN <<r>> \o s
    ELSE <<Head(s)>> \o InsertSorted(r, Tail(s))

\* Vec::sort_by, a stable sort
RECURSIVE SortBy(_)
SortBy(s) ==
    IF s = <<>> THEN <<>>
    ELSE InsertSorted(s[Len(s)], SortBy(SubSeq(s, 1, Len(s) - 1)))

ParsedBranches(lines, gh) == SortBy(FilterMapLines(lines, PrMapOrDefault(gh)))

-----------------------------------------------------------------------------
(* App: the cursor arithmetic. Each returns Panicked, or <<the index to select>> *)

\* self.branches.len() - 1 on usize: with len = 0 a debug build panics, a release build wraps
LenMinusOne(len, checks) ==
    IF len >= 1 THEN <<len - 1>>
    ELSE IF checks THEN Panicked ELSE <<UsizeMax>>

\* App::next without the wrap to 0 behind the last index
NextIndexNoWrap(sel, len, checks) ==
    IF sel = None THEN <<0>> ELSE <<sel[1] + 1>>

\* App::next
NextIndex(sel, len, checks) ==
    IF sel = None THEN <<0>>
    ELSE LET last == LenMinusOne(len, checks) IN
         IF last = Panicked THEN Panicked
         ELSE IF sel[1] >= last[1] THEN <<0>> ELSE <<sel[1] + 1>>

\* App::previous stopping at 0 instead of wrapping to the last index
PreviousIndexNoWrap(sel, len, checks) ==
    IF sel = None THEN <<0>>
    ELSE IF sel[1] = 0 THEN <<0>>
    ELSE <<sel[1] - 1>>

\* App::previous
PreviousIndex(sel, len, checks) ==
    IF sel = None THEN <<0>>
    ELSE IF sel[1] = 0 THEN LenMinusOne(len, checks)
    ELSE <<sel[1] - 1>>

\* App::next_page without the clamp to the last index
NextPageIndexUnclamped(sel, len, page, checks) ==
    IF sel = None THEN <<0>>
    ELSE <<SaturatingAdd(sel[1], page)>>

\* App::next_page
NextPageIndex(sel, len, page, checks) ==
    IF sel = None THEN <<0>>
    ELSE LET last == LenMinusOne(len, checks) IN
         IF last = Panicked THEN Panicked
         ELSE <<Min(SaturatingAdd(sel[1], page), last[1])>>

\* App::prev_page
PrevPageIndex(sel, page) ==
    IF sel = None THEN <<0>>
    ELSE <<SaturatingSub(sel[1], page)>>

-----------------------------------------------------------------------------
(* main *)

\* bs[i] of a Vec, whose indices start at 0
At(bs, i) == bs[i + 1]

\* the viewport height
Height(bs) == IF bs = <<>> THEN 3 ELSE Min(SaturatingAdd(Len(bs), 2), 20)

\* an initial selection that never looks for the current branch
InitialSelectionFirst(bs) == IF bs = <<>> THEN None ELSE Some(0)

\* app.branches.iter().position(|b| b.is_current).or_else(..)
InitialSelection(bs) ==
    IF \E k \in DOMAIN bs : bs[k].is_current
    THEN LET first == CHOOSE k \in DOMAIN bs :
                         /\ bs[k].is_current
                         /\ \A j \in DOMAIN bs : bs[j].is_current => k <= j
         IN Some(first - 1)
    ELSE IF bs = <<>> THEN None ELSE Some(0)

\* the input events of crossterm that handle_events tells apart
Events == {
    [kind |-> "Key", code |-> "q", modifiers |-> "NONE"],
    [kind |-> "Key", code |-> "q", modifiers |-> "CONTROL"],
    [kind |-> "Key", code |-> "c", modifiers |-> "CONTROL"],
    [kind |-> "Key", code |-> "c", modifiers |-> "NONE"],
    [kind |-> "Key", code |-> "c", modifiers |-> "CONTROL|SHIFT"],
    [kind |-> "Key", code |-> "Down", modifiers |-> "NONE"],
    [kind |-> "Key", code |-> "j", modifiers |-> "NONE"],
    [kind |-> "Key", code |-> "Up", modifiers |-> "NONE"],
    [kind |-> "Key", code |-> "k", modifiers |-> "NONE"],
    [kind |-> "Key", code |-> "PageDown", modifiers |-> "NONE"],
    [kind |-> "Key", code |-> "PageUp", modifiers |-> "NONE"],
    [kind |-> "Key", code |-> "Enter", modifiers |-> "NONE"],
    [kind |-> "Key", code |-> "x", modifiers |-> "NONE"],
    [kind |-> "Resize", code |-> "", modifiers |-> "NONE"] }

\* the output of git: branch names are unique and HEAD is on at most one branch
WellFormedOutput(lines) ==
    LET bs == FilterMapLines(lines, <<>>) IN
    /\ \A i, j \in DOMAIN lines : lines[i] = lines[j] => i = j
    /\ \A i, j \in DOMAIN bs : bs[i].name = bs[j].name => i = j
    /\ \A i, j \in DOMAIN bs : bs[i].is_current /\ bs[j].is_current => i = j

LinesUpTo(n) == UNION {[1..m -> SampleLines] : m \in 0..n}

Init ==
    /\ git_status \in {"ok", "exit_nonzero", "launch_error"}
    /\ git_output \in {lines \in LinesUpTo(MaxLines) : WellFormedOutput(lines)}
                      \cup {LongOutput(ManyLines, cur) : cur \in {0, 1, ManyLines}}
    /\ gh_result \in GhResults
    /\ overflow_checks \in BOOLEAN
    /\ pc = "get_branch_info"
    /\ exit_error = ""
    /\ branches = <<>>
    /\ selected = None
    /\ should_quit = FALSE
    /\ last_checked_out_branch = None
    /\ page_size = 0
    /\ raw_mode = FALSE
    /\ checkout_calls = 0
    /\ checkout_args = <<>>

\* the call goes on to the next position of main
Goto(next) == pc' = next /\ UNCHANGED exit_error

\* main returns the Err of the call through `?`
ReturnErr(call) == pc' = "exit_err" /\ exit_error' = call

\* a panic unwinds out of main
Panic ==
    /\ Goto("panic")
    /\ UNCHANGED <<app, env, raw_mode, checkout_calls, checkout_args>>

\* a get_branch_info that reads the output of git without testing its exit status
GetBranchInfoUnchecked ==
    /\ pc = "get_branch_info"
    /\ IF git_status # "launch_error"
       THEN /\ branches' = ParsedBranches(git_output, gh_result)
            /\ Goto("enable_raw_mode")
       ELSE /\ ReturnErr("get_branch_info")
            /\ UNCHANGED branches
    /\ UNCHANGED <<env, selected, should_quit, last_checked_out_branch, page_size,
                   raw_mode, checkout_calls, checkout_args>>

\* let branches = get_branch_info()?
GetBranchInfo ==
    /\ pc = "get_branch_info"
    /\ IF git_status = "ok"
       THEN /\ branches' = ParsedBranches(git_output, gh_result)
            /\ Goto("enable_raw_mode")
       ELSE /\ ReturnErr("get_branch_info")
            /\ UNCHANGED branches
    /\ UNCHANGED <<env, selected, should_quit, last_checked_out_branch, page_size,
                   raw_mode, checkout_calls, checkout_args>>

\* enable_raw_mode()?
EnableRawMode ==
    /\ pc = "enable_raw_mode"
    /\ \E ok \in BOOLEAN :
          IF ok
          THEN raw_mode' = TRUE /\ Goto("terminal")
          ELSE ReturnErr("enable_raw_mode") /\ UNCHANGED raw_mode
    /\ UNCHANGED <<app, env, checkout_calls, checkout_args>>

\* Terminal::with_options(..)?, App::new(branches, page_size), the initial selection
NewApp ==
    /\ pc = "terminal"
    /\ \E ok \in BOOLEAN :
          IF ok
          THEN /\ page_size' = SaturatingSub(Height(branches), 2)
               /\ selected' = InitialSelection(branches)
               /\ should_quit' = FALSE
               /\ last_checked_out_branch' = None
               /\ Goto("run_app")
          ELSE /\ ReturnErr("terminal")
               /\ UNCHANGED <<selected, should_quit, last_checked_out_branch, page_size>>
    /\ UNCHANGED <<branches, env, raw_mode, checkout_calls, checkout_args>>

\* run_app as a loop that does not test should_quit
DrawAlways ==
    /\ pc = "run_app"
    /\ \E ok \in BOOLEAN : IF ok THEN Goto("handle_events") ELSE ReturnErr("draw")
    /\ UNCHANGED <<app, env, raw_mode, checkout_calls, checkout_args>>

\* run_app: while !app.should_quit { terminal.draw(|f| ui(f, app))?; ..
\* ui changes no field of App: on an empty listing it returns before the list widget,
\* and the widget keeps a selection that is an index of its items.
Draw ==
    /\ pc = "run_app"
    /\ ~should_quit
    /\ \E ok \in BOOLEAN : IF ok THEN Goto("handle_events") ELSE ReturnErr("draw")
    /\ UNCHANGED <<app, env, raw_mode, checkout_calls, checkout_args>>

\* the model keeps to cursor values near both ends of usize
InWindow(r) ==
    r # Panicked => \/ r[1] <= Len(branches) + MaxWander
                    \/ r[1] >= UsizeMax - MaxWander

\* self.state.select(Some(i)), or the panic of computing i
Select(r) ==
    /\ InWindow(r)
    /\ IF r = Panicked
       THEN Panic
       ELSE /\ selected' = r
            /\ Goto("run_app")
            /\ UNCHANGED <<branches, should_quit, last_checked_out_branch, page_size,
                           env, raw_mode, checkout_calls, checkout_args>>

\* App::quit
Quit == should_quit' = TRUE

\* a quit key that confirms the branch under the cursor
KeyQuitConfirms ==
    /\ last_checked_out_branch' =
          IF selected # None /\ selected[1] < Len(branches)
          THEN Some(At(branches, selected[1]).name)
          ELSE last_checked_out_branch
    /\ Quit
    /\ Goto("run_app")
    /\ UNCHANGED <<branches, selected, page_size, env, raw_mode,
                   checkout_calls, checkout_args>>

\* KeyCode::Char('q'), and KeyCode::Char('c') with CONTROL
KeyQuit ==
    /\ Quit
    /\ Goto("run_app")
    /\ UNCHANGED <<branches, selected, last_checked_out_branch, page_size,
                   env, raw_mode, checkout_calls, checkout_args>>

KeyNext == Select(NextIndex(selected, Len(branches), overflow_checks))

KeyPrevious == Select(PreviousIndex(selected, Len(branches), overflow_checks))

KeyNextPage == Select(NextPageIndex(selected, Len(branches), page_size, overflow_checks))

KeyPrevPage == Select(PrevPageIndex(selected, page_size))

\* an Enter that confirms the first branch of the listing
KeyEnterFirst ==
    IF selected # None /\ selected[1] >= Len(branches)
    THEN Panic
    ELSE /\ last_checked_out_branch' =
               IF selected # None THEN Some(At(branches, 0).name)
               ELSE last_checked_out_branch
         /\ Quit
         /\ Goto("run_app")
         /\ UNCHANGED <<branches, selected, page_size, env, raw_mode,
                        checkout_calls, checkout_args>>

\* KeyCode::Enter
KeyEnter ==
    IF selected # None /\ selected[1] >= Len(branches)
    THEN Panic          \* app.branches[selected]: index out of bounds
    ELSE /\ last_checked_out_branch' =
               IF selected # None THEN Some(At(branches, selected[1]).name)
               ELSE last_checked_out_branch
         /\ Quit
         /\ Goto("run_app")
         /\ UNCHANGED <<branches, selected, page_size, env, raw_mode,
                        checkout_calls, checkout_args>>

\* _ => {} and the events that are no key
KeyIgnored ==
    /\ Goto("run_app")
    /\ UNCHANGED <<app, env, raw_mode, checkout_calls, checkout_args>>

\* a match whose 'c' arm does not look at the modifiers
DispatchAnyC(ev) ==
    IF ev.kind # "Key" THEN KeyIgnored
    ELSE IF ev.code = "q" THEN KeyQuit
    ELSE IF ev.code = "c" THEN KeyQuit
    ELSE IF ev.code \in {"Down", "j"} THEN KeyNext
    ELSE IF ev.code \in {"Up", "k"} THEN KeyPrevious
    ELSE IF ev.code = "PageDown" THEN KeyNextPage
    ELSE IF ev.code = "PageUp" THEN KeyPrevPage
    ELSE IF ev.code = "Enter" THEN KeyEnter
    ELSE KeyIgnored

\* the match of handle_events
Dispatch(ev) ==
    IF ev.kind # "Key" THEN KeyIgnored
    ELSE IF ev.code = "q" THEN KeyQuit
    ELSE IF ev.code = "c" /\ ev.modifiers = "CONTROL" THEN KeyQuit
    ELSE IF ev.code \in {"Down", "j"} THEN KeyNext
    ELSE IF ev.code \in {"Up", "k"} THEN KeyPrevious
    ELSE IF ev.code = "PageDown" THEN KeyNextPage
    ELSE IF ev.code = "PageUp" THEN KeyPrevPage
    ELSE IF ev.code = "Enter" THEN KeyEnter
    ELSE KeyIgnored

\* event::read()? fails
ReadFails ==
    /\ ReturnErr("read")
    /\ UNCHANGED <<app, env, raw_mode, checkout_calls, checkout_args>>

\* handle_events(app)?
HandleEvents ==
    /\ pc = "handle_events"
    /\ \/ ReadFails
       \/ \E ev \in Events : Dispatch(ev)

\* run_app returns Ok(()); disable_raw_mode()?
DisableRawMode ==
    /\ pc = "run_app"
    /\ should_quit
    /\ \E ok \in BOOLEAN :
          IF ok
          THEN raw_mode' = FALSE /\ Goto("checkout")
          ELSE ReturnErr("disable_raw_mode") /\ UNCHANGED raw_mode
    /\ UNCHANGED <<app, env, checkout_calls, checkout_args>>

\* a checkout that is run again when git exits non-zero
CheckoutRetry ==
    /\ pc = "checkout"
    /\ IF last_checked_out_branch # None
       THEN /\ checkout_calls' = checkout_calls + 1
            /\ checkout_args' = <<"checkout", last_checked_out_branch[1]>>
            /\ \E status \in {"exit_zero", "exit_nonzero", "launch_error"} :
                  CASE status = "launch_error" -> ReturnErr("checkout")
                    [] status = "exit_nonzero" -> Goto("checkout")
                    [] status = "exit_zero" -> Goto("exit_ok")
       ELSE /\ Goto("exit_ok")
            /\ UNCHANGED <<checkout_calls, checkout_args>>
    /\ UNCHANGED <<app, env, raw_mode>>

\* if let Some(branch_name) = app.last_checked_out_branch { git checkout branch_name }
Checkout ==
    /\ pc = "checkout"
    /\ IF last_checked_out_branch # None
       THEN /\ checkout_calls' = checkout_calls + 1
            /\ checkout_args' = <<"checkout", last_checked_out_branch[1]>>
            /\ \E status \in {"exit_zero", "exit_nonzero", "launch_error"} :
                  IF status = "launch_error" THEN ReturnErr("checkout") ELSE Goto("exit_ok")
       ELSE /\ Goto("exit_ok")
            /\ UNCHANGED <<checkout_calls, checkout_args>>
    /\ UNCHANGED <<app, env, raw_mode>>

Next ==
    \/ GetBranchInfo
    \/ EnableRawMode
    \/ NewApp
    \/ Draw
    \/ HandleEvents
    \/ DisableRawMode
    \/ Checkout

Spec == Init /\ [][Next]_vars

-----------------------------------------------------------------------------
(* Properties *)

\* App::new has run: the fields of App are those of the program
AppExists ==
    /\ pc \notin {"get_branch_info", "enable_raw_mode", "terminal"}
    /\ exit_error \notin {"get_branch_info", "enable_raw_mode", "terminal"}

\* the cursor has left the place the initial selection gave it
Moved == AppExists /\ selected # InitialSelection(branches)

\* C1: on a non-empty listing the cursor is set and is an index of the listing,
\* in every state from the initial selection on, whatever keys were handled.
C1_CursorValid ==
    AppExists /\ branches # <<>> =>
        /\ selected # None
        /\ 0 <= selected[1]
        /\ selected[1] < Len(branches)

\* on a listing longer than a page, the cursor stands one page below the first record
C1_Witness ==
    /\ pc = "run_app"
    /\ page_size >= 1
    /\ Len(branches) > page_size + 1
    /\ Moved
    /\ selected = Some(page_size)

RECURSIVE TimesNext(_, _)
TimesNext(sel, n) ==
    IF n = 0 THEN sel
    ELSE TimesNext(NextIndex(sel, Len(branches), overflow_checks), n - 1)

RECURSIVE TimesPrevious(_, _)
TimesPrevious(sel, n) ==
    IF n = 0 THEN sel
    ELSE TimesPrevious(PreviousIndex(sel, Len(branches), overflow_checks), n - 1)

\* C2: on a non-empty listing of length len, from the cursor of any reachable state,
\* len times next() comes back to that cursor, and so does len times previous();
\* one next() at the last index gives 0, one previous() at 0 gives the last index.
C2_CycleOfLength ==
    AppExists /\ branches # <<>> =>
        /\ TimesNext(selected, Len(branches)) = selected
        /\ TimesPrevious(selected, Len(branches)) = selected
        /\ \A n \in 1..(Len(branches) - 1) :
              /\ TimesNext(selected, n) # selected
              /\ TimesPrevious(selected, n) # selected
        /\ TimesNext(Some(Len(branches) - 1), 1) = Some(0)
        /\ TimesPrevious(Some(0), 1) = Some(Len(branches) - 1)

\* next() has wrapped from the last index to 0 on a listing of three or more branches
C2_Witness ==
    /\ pc = "run_app"
    /\ Len(branches) >= 3
    /\ Moved
    /\ selected = Some(0)

\* the step of handle_events for one of the events ev with P(ev)
StepOn(P(_)) == pc = "handle_events" /\ \E ev \in Events : P(ev) /\ Dispatch(ev)

IsPageDown(ev) == ev.kind = "Key" /\ ev.code = "PageDown"

IsPageUp(ev) == ev.kind = "Key" /\ ev.code = "PageUp"

\* C3: on every listing, the empty one too, PageDown never leaves the cursor at an
\* index >= len, and PageUp never leaves it at an index < 0.
C3_PagingInRange ==
    [][/\ StepOn(IsPageDown) /\ selected' # None => selected'[1] < Len(branches')
       /\ StepOn(IsPageUp) /\ selected' # None => selected'[1] >= 0]_vars

IsEnter(ev) == ev.kind = "Key" /\ ev.code = "Enter"

IsQuitKey(ev) ==
    /\ ev.kind = "Key"
    /\ ev.code = "q" \/ (ev.code = "c" /\ ev.modifiers = "CONTROL")

\* C4: a step that sets last_checked_out_branch sets it to the name of the record
\* under the cursor of that step and sets should_quit in the same step; and at all
\* times a set last_checked_out_branch is the name of the record under the cursor.
C4_ConfirmedIsSelected ==
    /\ [][last_checked_out_branch' # last_checked_out_branch =>
             /\ StepOn(IsEnter)
             /\ selected # None
             /\ selected[1] < Len(branches)
             /\ last_checked_out_branch' = Some(At(branches, selected[1]).name)
             /\ should_quit']_vars
    /\ [](last_checked_out_branch # None =>
             /\ should_quit
             /\ selected # None
             /\ selected[1] < Len(branches)
             /\ last_checked_out_branch = Some(At(branches, selected[1]).name))

\* Enter was handled with the cursor moved away from the first record
C4_Witness ==
    /\ pc = "run_app"
    /\ Moved
    /\ selected # None
    /\ selected[1] >= 1
    /\ last_checked_out_branch # None

\* main has returned
Exited == pc \in {"exit_ok", "exit_err"}

C6_QuitLeavesUnconfirmed ==
    /\ [][StepOn(IsQuitKey) =>
             /\ should_quit'
             /\ last_checked_out_branch' = last_checked_out_branch
             /\ last_checked_out_branch' = None]_vars
    /\ [][should_quit /\ last_checked_out_branch = None =>
             last_checked_out_branch' = None /\ checkout_calls' = 0]_vars
    /\ [](last_checked_out_branch = None => checkout_calls = 0)

\* a run on two or more branches that moved the cursor and ended by a quit key
C6_Witness ==
    /\ pc = "exit_ok"
    /\ Len(branches) >= 2
    /\ Moved
    /\ should_quit
    /\ last_checked_out_branch = None
    /\ checkout_calls = 0

\* C7: once should_quit is true it stays true, nothing is drawn, no event is read
\* and no field of App changes any more.
C7_TerminatedIsFinal ==
    /\ [][should_quit =>
             /\ should_quit'
             /\ UNCHANGED <<branches, selected, last_checked_out_branch, page_size>>
             /\ pc' # "handle_events"]_vars
    /\ [](should_quit => pc # "handle_events")

\* the run went on to its end after Enter
C7_Witness ==
    /\ pc = "exit_ok"
    /\ should_quit
    /\ last_checked_out_branch # None
    /\ checkout_calls = 1

\* C8: on an empty listing the cursor stays None whatever keys are handled.
C8_EmptyStaysUnset == AppExists /\ branches = <<>> => selected = None

\* C9: Enter on an empty listing, in whatever state the keys before it left, sets
\* should_quit and leaves last_checked_out_branch None.
C9_ConfirmOnEmpty ==
    [][StepOn(IsEnter) /\ branches = <<>> =>
          should_quit' /\ last_checked_out_branch' = None]_vars

\* C10: the cursor App starts with is the index of the current branch, 0 on a
\* listing without a current branch, None on the empty listing; on the output
\* <<LMain, LFeature>> the listing is feature, main and the cursor is on feature.
C10_InitialCursor ==
    [][pc = "terminal" /\ pc' = "run_app" =>
          /\ branches' = <<>> => selected' = None
          /\ branches' # <<>> =>
                /\ selected' # None
                /\ selected'[1] \in 0..(Len(branches') - 1)
                /\ IF \E k \in DOMAIN branches' : branches'[k].is_current
                   THEN At(branches', selected'[1]).is_current
                   ELSE selected' = Some(0)
          /\ git_output = <<LMain, LFeature>> =>
                /\ Len(branches') = 2
                /\ branches'[1].name = "feature"
                /\ branches'[2].name = "main"
                /\ selected' = Some(0)]_vars

\* the current branch is not the first of the listing: the initial cursor is on it
C10_Witness ==
    /\ pc = "run_app"
    /\ ~Moved
    /\ Len(branches) >= 2
    /\ selected = Some(1)
    /\ branches[2].is_current


\* get_branch_info has returned Ok: branches is the listing
FetchDone == pc # "get_branch_info" /\ exit_error # "get_branch_info"

\* get_branch_info has just returned Ok(branches)
Fetched == pc = "enable_raw_mode"

\* the records in the order of the lines they were parsed from
Parsed == FilterMapLines(git_output, PrMapOrDefault(gh_result))

\* how often r occurs in s
Count(s, r) == Cardinality({k \in DOMAIN s : s[k] = r})

\* the place of r in s
Pos(s, r) == CHOOSE k \in DOMAIN s : s[k] = r

\* C11: the listing is a permutation of the parsed records, non-increasing in
\* last_commit_timestamp, and records of equal timestamp keep the order of their lines.
C11_SortedStable ==
    Fetched =>
        LET ps == Parsed IN
        /\ Len(branches) = Len(ps)
        /\ \A k \in DOMAIN ps : Count(branches, ps[k]) = Count(ps, ps[k])
        /\ \A i, j \in DOMAIN branches :
              i < j => branches[i].last_commit_timestamp >= branches[j].last_commit_timestamp
        /\ \A i, j \in DOMAIN ps :
              i < j /\ ps[i].last_commit_timestamp = ps[j].last_commit_timestamp
                 => Pos(branches, ps[i]) < Pos(branches, ps[j])

\* the sort has moved an older record behind two records of equal timestamp
C11_Witness ==
    /\ pc = "enable_raw_mode"
    /\ Len(branches) = 3
    /\ branches # Parsed
    /\ branches[1].last_commit_timestamp = branches[2].last_commit_timestamp
    /\ branches[2].last_commit_timestamp > branches[3].last_commit_timestamp

\* the number of fields of a line: one more than its delimiters
FieldCount(line) == Cardinality({k \in DOMAIN line : line[k] = DELIMITER}) + 1

HasSixFields(line) == FieldCount(line) = 6

\* C12: the listing has exactly one record for every line of six fields and none for
\* any other line; the other lines neither fail the fetch nor change the records of
\* the six-field lines.
C12_SixFieldLinesOnly ==
    /\ git_status = "ok" /\ pc # "get_branch_info" => FetchDone
    /\ Fetched =>
          /\ Len(branches) = Len(SelectSeq(git_output, HasSixFields))
          /\ \A k \in DOMAIN git_output :
                HasSixFields(git_output[k]) =>
                   /\ Len(Split(git_output[k])) = 6
                   /\ Count(branches, ParseLine(git_output[k], PrMapOrDefault(gh_result))[1]) = 1
          /\ branches = ParsedBranches(SelectSeq(git_output, HasSixFields), gh_result)

\* a line of seven fields was dropped between two lines that were kept
C12_Witness ==
    /\ pc = "enable_raw_mode"
    /\ Len(git_output) = 3
    /\ ~HasSixFields(git_output[2])
    /\ Len(branches) = 2


C14_FetchFailureAborts ==
    git_status # "ok" =>
        /\ pc \in {"get_branch_info", "exit_err"}
        /\ pc = "exit_err" => exit_error = "get_branch_info"
        /\ ~raw_mode
        /\ checkout_calls = 0
        /\ branches = <<>> /\ selected = None /\ ~should_quit
        /\ last_checked_out_branch = None

\* git printed lines but exited non-zero: main has returned the error
C14_Witness ==
    /\ git_status = "exit_nonzero"
    /\ git_output # <<>>
    /\ pc = "exit_err"
    /\ exit_error = "get_branch_info"


\* the line of git_output that the record named name was parsed from
LineOf(name) ==
    CHOOSE k \in DOMAIN git_output :
       HasSixFields(git_output[k]) /\ Split(git_output[k])[2] = name

\* the epoch field of the record's line is the text of a number
EpochParses(r) == Split(git_output[LineOf(r.name)])[5] \in DOMAIN Numerals

\* C15 as stated: a record whose epoch field is no number gets timestamp 0 and
\* stands behind every record whose epoch field is a number, whatever that number.
C15_MalformedLast ==
    Fetched =>
        \A i, j \in DOMAIN branches :
           ~EpochParses(branches[i]) /\ EpochParses(branches[j]) =>
              /\ branches[i].last_commit_timestamp = 0
              /\ j < i

\* C15, amended: a record whose epoch field is no number gets timestamp 0 without
\* failing the fetch, and stands behind every record whose epoch is greater than 0
\* and in front of every record whose epoch is negative.
C15_MalformedAfterPositive ==
    /\ git_status = "ok" /\ pc # "get_branch_info" => FetchDone
    /\ Fetched =>
          \A i, j \in DOMAIN branches :
             ~EpochParses(branches[i]) /\ EpochParses(branches[j]) =>
                /\ branches[i].last_commit_timestamp = 0
                /\ branches[j].last_commit_timestamp > 0 => j < i
                /\ branches[j].last_commit_timestamp < 0 => i < j

\* a record without a readable epoch stands between a newer and a pre-1970 record
C15_Witness ==
    /\ pc = "enable_raw_mode"
    /\ Len(branches) = 3
    /\ ~EpochParses(branches[2])
    /\ branches[1].last_commit_timestamp > 0
    /\ branches[3].last_commit_timestamp < 0


\* C16: on a non-empty listing of length len with the cursor at c and page size p,
\* PageDown sets the cursor to c + p, or to len - 1 when that is beyond it, and PageUp
\* to c - p, or to 0 when that is below it; on 3 branches with page size 5, PageDown
\* at 0 gives 2.
C16_PagingExact ==
    /\ [][StepOn(IsPageDown) /\ branches # <<>> /\ selected # None =>
             /\ page_size >= 1
             /\ selected' = Some(IF selected[1] + page_size <= Len(branches) - 1
                                 THEN selected[1] + page_size
                                 ELSE Len(branches) - 1)
             /\ pc' = "run_app"]_vars
    /\ [][StepOn(IsPageUp) /\ branches # <<>> /\ selected # None =>
             /\ page_size >= 1
             /\ selected' = Some(IF selected[1] - page_size >= 0
                                 THEN selected[1] - page_size
                                 ELSE 0)
             /\ pc' = "run_app"]_vars
    /\ [](NextPageIndex(Some(0), 3, 5, overflow_checks) = <<2>>)
    /\ [](PrevPageIndex(Some(2), 5) = <<0>>)

\* on a listing longer than a page, the cursor stands one page above the last record
C16_Witness ==
    /\ pc = "run_app"
    /\ page_size >= 1
    /\ Len(branches) > page_size + 1
    /\ Moved
    /\ selected = Some(Len(branches) - 1 - page_size)

\* an event that is none of the keys handle_events maps to an operation
IsUnmapped(ev) ==
    \/ ev.kind # "Key"
    \/ /\ ev.code \notin {"q", "Down", "j", "Up", "k", "PageDown", "PageUp", "Enter"}
       /\ ~(ev.code = "c" /\ ev.modifiers = "CONTROL")

\* C17: handling an event that is not a mapped key changes no field of App; the
\* loop goes on to its next turn, and nothing outside App changes either.
C17_UnmappedIgnored ==
    /\ [][StepOn(IsUnmapped) =>
             /\ UNCHANGED <<branches, selected, should_quit, last_checked_out_branch, page_size>>
             /\ UNCHANGED <<raw_mode, checkout_calls, checkout_args, exit_error>>
             /\ pc' = "run_app"]_vars
    /\ [](\E ev \in Events : ev.kind # "Key")
    /\ [](\E ev \in Events : ev.kind = "Key" /\ IsUnmapped(ev) /\ ev.code = "c")

\* the loop is at its next turn, still running, with a cursor that was moved before
C17_Witness ==
    /\ pc = "run_app"
    /\ ~should_quit
    /\ Moved
    /\ Len(branches) = 3
    /\ last_checked_out_branch = None


\* C18: once raw mode was enabled, it is disabled again when main returns, on the
\* normal paths and on the error paths (unless disabling it is what failed).
C18_RawModeRestored ==
    Exited /\ exit_error # "disable_raw_mode" => ~raw_mode

IsNavigation(ev) ==
    /\ ev.kind = "Key"
    /\ ev.code \in {"Down", "j", "Up", "k", "PageDown", "PageUp"}

\* C19: with no I/O error, should_quit is set by the quit keys and Enter and by
\* nothing else; handling a navigation, paging or unmapped event leaves the loop
\* running for its next turn; handling a quit key or Enter sets should_quit, after
\* which nothing is drawn or read.
C19_EndsExactlyOnQuitOrConfirm ==
    /\ [][should_quit' # should_quit => StepOn(IsQuitKey) \/ StepOn(IsEnter)]_vars
    /\ [][StepOn(IsNavigation) \/ StepOn(IsUnmapped) =>
             ~should_quit' /\ pc' = "run_app"]_vars
    /\ [][StepOn(IsQuitKey) \/ StepOn(IsEnter) =>
             should_quit' /\ pc' = "run_app"]_vars
    /\ [][should_quit => pc' \notin {"handle_events", "run_app"} \/ pc' = pc]_vars

\* C20: no handler panics, on any listing and for any keys.
C20_NoHandlerFaults == pc # "panic"

====
